---- MODULE Spec2Model ----
(***************************************************************************)
(* Model of panoramisk/manager.py: the Connection protocol (framing of the *)
(* byte stream into blocks, routing of each decoded Message to a pending   *)
(* Action or to the event registry) and the Manager (connect, login,       *)
(* keepalive, register_event, dispatch).                                   *)
(*                                                                         *)
(* Text is a sequence of characters, a character is a one-letter string.   *)
(* One letter stands for one token of the wire format:                     *)
(*   "I" = "ActionID: "   "E" = "Event: "   "R" = "Response: "             *)
(*   "L" = "EventList: "  "V" = "Value: "                                  *)
(* the letters after a key up to the end of the line are its value.        *)
(* Bytes are strings too; every character is one byte, except EAcute       *)
(* whose UTF-8 encoding is the two bytes <<Lead, Cont>>.                   *)
(***************************************************************************)
EXTENDS Integers, Sequences, FiniteSets, TLC

\* ---------------------------------------------------------------- bounds
MaxBlocks == 3      \* blocks the peer writes in one run of the framing
MaxRouted == 2      \* blocks the peer writes in one run of the routing
MaxReplies == 2     \* blocks the peer writes in one run of the session
MaxActions == 1     \* Actions created in one run (send, login, ping)
MaxRegs == 3        \* register_event calls in one run
MaxSubs == 1        \* register_event calls in one run with a connection
MaxConnects == 2    \* connect() calls in one run
MaxDispatch == 1    \* direct dispatch() calls in one run
MaxCloses == 2      \* Manager.close() calls in one run

\* ------------------------------------------------------------ characters
CR == "\r"
LF == "\n"
SP == " "
EOL == <<CR, LF>>
Delimiter == EOL \o EOL
Whitespace == {CR, LF, SP}
EAcute == "e_acute"
Lead == "c3"
Cont == "a9"
None == <<"None">>

SuccessTokens == {"S"}

Last(s) == s[Len(s)]
Front(s) == SubSeq(s, 1, Len(s) - 1)

\* ---------------------------------------------------------------- codecs
\* str.encode('utf8') of a text
RECURSIVE Encode(_)
Encode(text) ==
    IF text = <<>> THEN <<>>
    ELSE (IF Head(text) = EAcute THEN <<Lead, Cont>> ELSE <<Head(text)>>)
         \o Encode(Tail(text))

\* bytes.decode('utf8', 'ignore') of one chunk: a byte that is not part of
\* a well-formed sequence inside this chunk is dropped
RECURSIVE Decode(_)
Decode(bytes) ==
    IF bytes = <<>> THEN <<>>
    ELSE IF Head(bytes) = Lead
         THEN IF Len(bytes) >= 2 /\ bytes[2] = Cont
              THEN <<EAcute>> \o Decode(Tail(Tail(bytes)))
              ELSE Decode(Tail(bytes))
         ELSE IF Head(bytes) = Cont
              THEN Decode(Tail(bytes))
              ELSE <<Head(bytes)>> \o Decode(Tail(bytes))

\* str.split(sep): leftmost, non-overlapping occurrences of sep
Occurs(s, sep) ==
    {i \in 1..(Len(s) - Len(sep) + 1) : SubSeq(s, i, i + Len(sep) - 1) = sep}

Min(S) == CHOOSE x \in S : \A y \in S : x <= y

RECURSIVE Split(_, _)
Split(s, sep) ==
    IF Occurs(s, sep) = {} THEN <<s>>
    ELSE LET k == Min(Occurs(s, sep))
         IN  <<SubSeq(s, 1, k - 1)>> \o Split(SubSeq(s, k + Len(sep), Len(s)), sep)

\* str.strip()
RECURSIVE LStrip(_)
LStrip(s) ==
    IF s # <<>> /\ Head(s) \in Whitespace THEN LStrip(Tail(s)) ELSE s

RECURSIVE RStrip(_)
RStrip(s) ==
    IF s # <<>> /\ Last(s) \in Whitespace THEN RStrip(Front(s)) ELSE s

Strip(s) == RStrip(LStrip(s))

\* ------------------------------------------------------- message.Message
\* the value of the last line of the block that starts with key, or None
RECURSIVE Field(_, _)
Field(ls, key) ==
    IF ls = <<>> THEN None
    ELSE IF Last(ls) # <<>> /\ Head(Last(ls)) = key
         THEN Tail(Last(ls))
         ELSE Field(Front(ls), key)

NoMessage ==
    [isnone |-> TRUE, id |-> None, event |-> None, response |-> None,
     eventlist |-> None, value |-> None]

\* Message.from_line: None for an empty block, else the fields of its lines
from_line(line) ==
    IF line = <<>> THEN NoMessage
    ELSE LET ls == Split(line, EOL)
         IN  [isnone |-> FALSE,
              id |-> Field(ls, "I"),
              event |-> Field(ls, "E"),
              response |-> Field(ls, "R"),
              eventlist |-> Field(ls, "L"),
              value |-> Field(ls, "V")]

\* Message.success
success(m) ==
    m.response # None /\ Len(m.response) = 1 /\ m.response[1] \in SuccessTokens

\* --------------------------------------------------------- actions.Action
Digits == <<"1", "2", "3", "4", "5", "6", "7", "8", "9">>

\* the identifier generated for the n-th Action
ActionId(n) == <<Digits[n]>>

\* Action(data, as_list=as_list): no response yet, future pending.  result is
\* the sequence handed to future.set_result: <<m>> for the Message m of a
\* single-response Action, the responses of a list Action.  sets counts the
\* set_result calls, login tells that Manager.login is a done callback, at is
\* the number of Messages routed on the Connection before the Action was sent.
NewAction(name, as_list, login, at) ==
    [name |-> name, as_list |-> as_list, responses |-> <<>>, done |-> FALSE,
     result |-> <<>>, sets |-> 0, login |-> login, at |-> at]

Complete == <<"C">>

\* Action.add_message: the Action after message, and whether it completed
add_message(action, message) ==
    LET rs == Append(action.responses, message)
        resolved(res) == [action EXCEPT !.responses = rs,
                                        !.done = TRUE,
                                        !.result = IF action.done THEN @ ELSE res,
                                        !.sets = @ + 1]
    IN  IF ~action.as_list
        THEN [action |-> resolved(<<rs[1]>>), completed |-> TRUE]
        ELSE IF message.eventlist = Complete
             THEN [action |-> resolved(rs), completed |-> TRUE]
             ELSE [action |-> [action EXCEPT !.responses = rs], completed |-> FALSE]

\* ------------------------------------------------------ event registry
\* the regular expression of fnmatch.translate(pattern) matched against the
\* whole of name: "*" is any run of characters, "?" any one character
RECURSIVE FnMatch(_, _)
FnMatch(pat, name) ==
    IF pat = <<>> THEN name = <<>>
    ELSE IF Head(pat) = "*"
         THEN FnMatch(Tail(pat), name)
              \/ (name # <<>> /\ FnMatch(pat, Tail(name)))
         ELSE /\ name # <<>>
              /\ (Head(pat) = "?" \/ Head(pat) = Head(name))
              /\ FnMatch(Tail(pat), Tail(name))

\* regexp.search in place of regexp.match: the pattern may start anywhere
MatchesSearch(pattern, name) ==
    \E i \in 1..(Len(name) + 1) : FnMatch(pattern, SubSeq(name, i, Len(name)))

\* regexp.match(event.event) is not None
Matches(pattern, name) == FnMatch(pattern, name)

Manager == "manager"
TheConnection == <<"Connection">>

\* the calls of the loops at manager.py 245-247 over one callback list
RECURSIVE Repeat(_, _)
Repeat(s, n) == IF n = 0 THEN <<>> ELSE s \o Repeat(s, n - 1)

\* the same calls, the callback list taken backwards
CallsOfReversed(pattern, cbs, event) ==
    LET once == [i \in 1..Len(cbs) |->
                    [cb |-> cbs[Len(cbs) + 1 - i], pattern |-> pattern,
                     event |-> event, manager |-> Manager]]
    IN  Repeat(once, Len(cbs))

CallsOf(pattern, cbs, event) ==
    LET once == [i \in 1..Len(cbs) |->
                    [cb |-> cbs[i], pattern |-> pattern, event |-> event,
                     manager |-> Manager]]
    IN  Repeat(once, Len(cbs))

\* the callbacks that raise an exception when called
Raising == {"X"}

\* the places of the calls of cs that raise
Raises(cs) == {i \in 1..Len(cs) : cs[i].cb \in Raising}

\* the calls with every exception of a callback caught and dropped
Swallowed(cs) == cs

\* the calls of cs that are made: a call that raises ends the loops of lines
\* 245-247, nothing catches the exception
UpToRaise(cs) ==
    IF Raises(cs) = {} THEN cs
    ELSE SubSeq(cs, 1, CHOOSE i \in Raises(cs) : \A j \in Raises(cs) : i <= j)

\* Manager.dispatch: the patterns matched, the callback calls made, and
\* whether a callback raised, which ends dispatch at that call with the
\* exception and without a return value
RECURSIVE dispatch(_, _, _)
dispatch(pats, cbs, event) ==
    IF pats = <<>> THEN [matches |-> <<>>, calls |-> <<>>, raised |-> FALSE]
    ELSE LET rest == dispatch(Front(pats), cbs, event)
             pattern == Last(pats)
             made == UpToRaise(CallsOf(pattern, cbs[pattern], event))
         IN  IF ~rest.raised /\ Matches(pattern, event.event)
             THEN [matches |-> Append(rest.matches, pattern),
                   calls |-> rest.calls \o made,
                   raised |-> Raises(made) # {}]
             ELSE rest

\* ------------------------------------------------------------------ state
VARIABLES
    username,              \* 'username' in Manager.config
    protocol,              \* Manager.protocol: None or the current Connection
    closed,                \* Connection.closed
    queue,                 \* Connection.queue: at most one carried-over text
    responses,             \* Connection.responses: the identifiers pending
    acts,                  \* every Action created, by identifier
    nextId,                \* the number of the next Action
    written,               \* identifiers of the Actions written to the transport
    wire,                  \* bytes the peer wrote that are not yet received
    delivered,             \* bytes handed to data_received on this Connection
    lines,                 \* data_received: the blocks still to process
    log,                   \* one entry per Message routed on this Connection
    patterns,              \* Manager.patterns
    callbacks,             \* Manager.callbacks
    matches,               \* what the last dispatch returned
    calls,                 \* the callback calls of the last dispatch
    authenticated,         \* Manager.authenticated
    authenticated_future,  \* Manager.authenticated_future: None or an identifier
    tasks,                 \* create_connection tasks not yet done
    pingTimers,            \* call_later(10, self.ping) timers pending
    retryTimers,           \* call_later(2, self.connect) timers pending
    doneCallbacks,         \* futures whose done callback login is scheduled
    lost,                  \* connection_lost of this Connection: "no", "due"
                           \* (the transport is closed, the call is to come)
                           \* or "called"
    transportCloses,       \* transport.close() calls of this Connection
    closeCalls,            \* close() calls of this Connection
    raised,                \* the last dispatch ended by a callback that raised
    registrars,            \* patterns of the registrars register_event returned
    returned,              \* what the last registration returned, <<>> at first
    applied,               \* registrations made through a registrar so far
    nblocks,               \* blocks the peer wrote so far
    nconnects,             \* connect() calls so far
    ndispatch,             \* direct dispatch() calls so far
    ncloses                \* Manager.close() calls so far

connVars == <<protocol, closed, queue, wire, delivered, lines, log, written>>
actVars == <<responses, acts, nextId>>
regVars == <<patterns, callbacks>>
dispVars == <<matches, calls>>
authVars == <<authenticated, authenticated_future, doneCallbacks>>
loopVars == <<tasks, pingTimers, retryTimers>>
closeVars == <<lost, transportCloses, closeCalls>>
cbVars == <<raised, registrars, returned, applied>>
countVars == <<nblocks, nconnects, ndispatch, ncloses>>
vars == <<username, connVars, actVars, regVars, dispVars, authVars, loopVars,
          closeVars, cbVars, countVars>>

Callbacks == {"A", "B"}
PeerStatus == <<"P", "S">>
NoPeerStatus == <<"N", "P", "S">>
Peer == <<"P">>
Patterns == {<<"P", "*">>, <<"*">>, <<"?", "S">>, <<"N", "*">>}

\* the table acts with one more Action
WithAction(table, id, action) ==
    [i \in DOMAIN table \cup {id} |-> IF i = id THEN action ELSE table[i]]

\* Manager.__init__, with or without credentials in the configuration
Init ==
    /\ username \in BOOLEAN
    /\ protocol = None
    /\ closed = FALSE
    /\ queue = <<>>
    /\ responses = {}
    /\ acts = <<>>
    /\ nextId = 1
    /\ written = <<>>
    /\ wire = <<>>
    /\ delivered = <<>>
    /\ lines = <<>>
    /\ log = <<>>
    /\ patterns = <<>>
    /\ callbacks = [p \in Patterns |-> <<>>]
    /\ matches = <<>>
    /\ calls = <<>>
    /\ authenticated = FALSE
    /\ authenticated_future = None
    /\ tasks = 0
    /\ pingTimers = 0
    /\ retryTimers = 0
    /\ doneCallbacks = <<>>
    /\ lost = "no"
    /\ transportCloses = 0
    /\ closeCalls = 0
    /\ raised = FALSE
    /\ registrars = {}
    /\ returned = <<>>
    /\ applied = 0
    /\ nblocks = 0
    /\ nconnects = 0
    /\ ndispatch = 0
    /\ ncloses = 0

\* the state once connect() and connection_made have run: a Connection with
\* nothing received yet, the Login Action sent if there are credentials, and
\* the keepalive timer scheduled
Connected ==
    /\ username \in BOOLEAN
    /\ protocol = TheConnection
    /\ closed = FALSE
    /\ queue = <<>>
    /\ responses = (IF username THEN {ActionId(1)} ELSE {})
    /\ acts = (IF username
               THEN WithAction(<<>>, ActionId(1), NewAction("Login", FALSE, TRUE, 0))
               ELSE <<>>)
    /\ nextId = (IF username THEN 2 ELSE 1)
    /\ written = (IF username THEN <<ActionId(1)>> ELSE <<>>)
    /\ wire = <<>>
    /\ delivered = <<>>
    /\ lines = <<>>
    /\ log = <<>>
    /\ patterns = <<>>
    /\ callbacks = [p \in Patterns |-> <<>>]
    /\ matches = <<>>
    /\ calls = <<>>
    /\ authenticated = FALSE
    /\ authenticated_future = (IF username THEN ActionId(1) ELSE None)
    /\ tasks = 0
    /\ pingTimers = 1
    /\ retryTimers = 0
    /\ doneCallbacks = <<>>
    /\ lost = "no"
    /\ transportCloses = 0
    /\ closeCalls = 0
    /\ raised = FALSE
    /\ registrars = {}
    /\ returned = <<>>
    /\ applied = 0
    /\ nblocks = 0
    /\ nconnects = 1
    /\ ndispatch = 0
    /\ ncloses = 0

\* no callback of the Connection is running
Idle == lines = <<>>

\* ---------------------------------------------------------------- Manager
\* Manager.connect: a task that creates the connection
Connect ==
    /\ Idle
    /\ nconnects < MaxConnects
    /\ tasks' = tasks + 1
    /\ nconnects' = nconnects + 1
    /\ UNCHANGED <<username, connVars, actVars, regVars, dispVars, authVars,
                   pingTimers, retryTimers, closeVars, cbVars, nblocks,
                   ndispatch, ncloses>>

\* Connection.close without the test of line 71
ConnectionCloseUnguarded ==
    [closed |-> TRUE,
     transportCloses |-> transportCloses + 1,
     closeCalls |-> closeCalls + 1,
     lost |-> IF lost = "no" THEN "due" ELSE lost]

\* Connection.close: what it makes of closed, of the number of
\* transport.close() calls and of the connection_lost call, which the loop
\* owes the Connection once its transport is closed
ConnectionClose ==
    [closed |-> TRUE,
     transportCloses |-> IF closed THEN transportCloses ELSE transportCloses + 1,
     closeCalls |-> closeCalls + 1,
     lost |-> IF ~closed /\ lost = "no" THEN "due" ELSE lost]

\* the except branch of connection_made without the call_later of line 116
NoRetry == retryTimers

\* Manager.connection_made, line 116: call_later(2, self.connect)
ScheduleRetry == retryTimers + 1

\* Manager.connection_made, the done callback of the task.  With ok the task
\* made a transport and a Connection (Connection.connection_made); without,
\* f.result() raises OSError.  A Connection that is replaced was closed by
\* line 111, so the connection_lost call it is still owed does nothing and
\* is left out.
ConnectionMade(ok) ==
    /\ Idle
    /\ tasks > 0
    /\ tasks' = tasks - 1
    /\ IF ok
       THEN /\ username => nextId <= MaxActions
            /\ protocol' = TheConnection
            /\ closed' = FALSE
            /\ lost' = "no"
            /\ transportCloses' = 0
            /\ closeCalls' = 0
            /\ queue' = <<>>
            /\ wire' = <<>>
            /\ delivered' = <<>>
            /\ log' = <<>>
            /\ lines' = <<>>
            /\ IF username
               THEN /\ authenticated' = FALSE
                    /\ authenticated_future' = ActionId(nextId)
                    /\ acts' = WithAction(acts, ActionId(nextId),
                                          NewAction("Login", FALSE, TRUE, 0))
                    /\ responses' = {ActionId(nextId)}
                    /\ written' = <<ActionId(nextId)>>
                    /\ nextId' = nextId + 1
               ELSE /\ responses' = {}
                    /\ written' = <<>>
                    /\ UNCHANGED <<authenticated, authenticated_future, acts, nextId>>
            /\ pingTimers' = pingTimers + 1
            /\ UNCHANGED retryTimers
       ELSE /\ IF protocol # None
               THEN /\ closed' = ConnectionClose.closed
                    /\ transportCloses' = ConnectionClose.transportCloses
                    /\ closeCalls' = ConnectionClose.closeCalls
                    /\ lost' = ConnectionClose.lost
               ELSE UNCHANGED <<closed, closeVars>>
            /\ wire' = <<>>
            /\ retryTimers' = ScheduleRetry
            /\ UNCHANGED <<protocol, queue, delivered, lines, log, written, actVars,
                           authenticated, authenticated_future, pingTimers>>
    /\ UNCHANGED <<username, regVars, dispVars, doneCallbacks, cbVars, countVars>>

\* the timer of connection_made's except branch fires: connect()
RetryConnect ==
    /\ Idle
    /\ retryTimers > 0
    /\ nconnects < MaxConnects
    /\ retryTimers' = retryTimers - 1
    /\ tasks' = tasks + 1
    /\ nconnects' = nconnects + 1
    /\ UNCHANGED <<username, connVars, actVars, regVars, dispVars, authVars,
                   pingTimers, closeVars, cbVars, nblocks, ndispatch, ncloses>>

\* login with bool(resp) in place of bool(resp.success)
RunLoginTruthy ==
    /\ Idle
    /\ doneCallbacks # <<>>
    /\ authenticated_future' = None
    /\ authenticated' = ~acts[Head(doneCallbacks)].result[1].isnone
    /\ doneCallbacks' = Tail(doneCallbacks)
    /\ UNCHANGED <<username, connVars, actVars, regVars, dispVars, loopVars,
                   closeVars, cbVars, countVars>>

\* Manager.login, run by the loop once the Login future is done
RunLogin ==
    /\ Idle
    /\ doneCallbacks # <<>>
    /\ authenticated_future' = None
    /\ authenticated' = success(acts[Head(doneCallbacks)].result[1])
    /\ doneCallbacks' = Tail(doneCallbacks)
    /\ UNCHANGED <<username, connVars, actVars, regVars, dispVars, loopVars,
                   closeVars, cbVars, countVars>>

\* Connection.send of a new Action, reached from Manager.send_action
SendAction(name, as_list) ==
    /\ protocol # None
    /\ nextId <= MaxActions
    /\ acts' = WithAction(acts, ActionId(nextId), NewAction(name, as_list, FALSE, Len(log)))
    /\ responses' = responses \cup {ActionId(nextId)}
    /\ written' = IF closed THEN written ELSE Append(written, ActionId(nextId))
    /\ nextId' = nextId + 1

\* Manager.send_action called by the application
Send(as_list) ==
    /\ Idle
    /\ SendAction("Action", as_list)
    /\ UNCHANGED <<username, protocol, closed, queue, wire, delivered, lines, log,
                   regVars, dispVars, authVars, loopVars, closeVars, cbVars,
                   countVars>>

\* Manager.ping: the keepalive timer fires, sends and schedules itself again
Ping ==
    /\ Idle
    /\ pingTimers > 0
    /\ SendAction("Ping", FALSE)
    /\ UNCHANGED <<username, protocol, closed, queue, wire, delivered, lines, log,
                   regVars, dispVars, authVars, loopVars, closeVars, cbVars,
                   countVars>>

\* _register_event(callback), lines 228-232, in the scope of a pattern: the
\* registry after it and what it returns
Register(pattern, callback) ==
    [patterns |-> Append(patterns, pattern),
     callbacks |-> [callbacks EXCEPT ![pattern] = Append(@, callback)],
     returned |-> <<callback>>]

\* Manager.register_event(pattern, callback)
RegisterEvent(pattern, callback, max) ==
    /\ Idle
    /\ Len(patterns) < max
    /\ LET r == Register(pattern, callback)
       IN  /\ patterns' = r.patterns
           /\ callbacks' = r.callbacks
           /\ returned' = r.returned
    /\ UNCHANGED <<username, connVars, actVars, dispVars, authVars, loopVars,
                   closeVars, raised, registrars, applied, countVars>>

\* register_event without the test of line 233: _register_event(None) is
\* run at once
GetRegistrarRegisters(pattern) ==
    /\ Idle
    /\ Len(patterns) < MaxRegs
    /\ registrars' = registrars \cup {pattern}
    /\ patterns' = Register(pattern, "None").patterns
    /\ callbacks' = Register(pattern, "None").callbacks
    /\ UNCHANGED <<username, connVars, actVars, dispVars, authVars,
                   loopVars, closeVars, raised, returned, applied, countVars>>

\* Manager.register_event(pattern) without a callback, line 236: the
\* registrar of the pattern is returned
GetRegistrar(pattern) ==
    /\ Idle
    /\ registrars' = registrars \cup {pattern}
    /\ UNCHANGED <<username, connVars, actVars, regVars, dispVars, authVars,
                   loopVars, closeVars, raised, returned, applied, countVars>>

\* the registrar of a pattern applied to a callback
ApplyRegistrar(pattern, callback, max) ==
    /\ Idle
    /\ pattern \in registrars
    /\ Len(patterns) < max
    /\ LET r == Register(pattern, callback)
       IN  /\ patterns' = r.patterns
           /\ callbacks' = r.callbacks
           /\ returned' = r.returned
    /\ applied' = applied + 1
    /\ UNCHANGED <<username, connVars, actVars, dispVars, authVars, loopVars,
                   closeVars, raised, registrars, countVars>>

\* Manager.dispatch(Message.from_line(line)) called by the application; with
\* an exception there is no return value
Dispatch(line) ==
    /\ Idle
    /\ ndispatch < MaxDispatch
    /\ LET d == dispatch(patterns, callbacks, from_line(line))
       IN  /\ matches' = (IF d.raised THEN matches ELSE d.matches)
           /\ calls' = d.calls
           /\ raised' = d.raised
    /\ ndispatch' = ndispatch + 1
    /\ UNCHANGED <<username, connVars, actVars, regVars, authVars, loopVars,
                   closeVars, registrars, returned, applied, nblocks, nconnects,
                   ncloses>>

\* Manager.close()
Close ==
    /\ Idle
    /\ ncloses < MaxCloses
    /\ ncloses' = ncloses + 1
    /\ IF protocol # None
       THEN /\ closed' = ConnectionClose.closed
            /\ transportCloses' = ConnectionClose.transportCloses
            /\ closeCalls' = ConnectionClose.closeCalls
            /\ lost' = ConnectionClose.lost
       ELSE UNCHANGED <<closed, closeVars>>
    /\ UNCHANGED <<username, protocol, queue, wire, delivered, lines, log,
                   written, actVars, regVars, dispVars, authVars, loopVars,
                   cbVars, nblocks, nconnects, ndispatch>>

\* ------------------------------------------------------------- Connection
\* the peer writes one block and the block delimiter
ServerSend(block, max) ==
    /\ Idle
    /\ protocol # None
    /\ ~closed
    /\ nblocks < max
    /\ wire' = wire \o Encode(block \o Delimiter)
    /\ nblocks' = nblocks + 1
    /\ UNCHANGED <<username, protocol, closed, queue, delivered, lines, log, written,
                   actVars, regVars, dispVars, authVars, loopVars, closeVars,
                   cbVars, nconnects, ndispatch, ncloses>>

\* Connection.data_received, lines 36-43: the first n bytes of the wire are
\* decoded, joined to the carried-over text and split into blocks
DataReceived(n) ==
    /\ Idle
    /\ protocol # None
    /\ ~closed
    /\ n \in 1..Len(wire)
    /\ LET data == Decode(SubSeq(wire, 1, n))
           text == IF queue # <<>> THEN Head(queue) \o data ELSE data
           frags == Split(text, Delimiter)
       IN  /\ queue' = <<Last(frags)>>
           /\ lines' = Front(frags)
    /\ wire' = SubSeq(wire, n + 1, Len(wire))
    /\ delivered' = delivered \o SubSeq(wire, 1, n)
    /\ UNCHANGED <<username, protocol, closed, log, written, actVars, regVars,
                   dispVars, authVars, loopVars, closeVars, cbVars, countVars>>

\* what routing one Message gives: the outcome, the Actions and the pending
\* table after it, whether an Action completed, and what dispatch returned
Outcome(out, as, rs, completed, d) ==
    [out |-> out, acts |-> as, responses |-> rs, completed |-> completed,
     matches |-> d.matches, calls |-> d.calls, raised |-> d.raised]

NoDispatch == [matches |-> <<>>, calls |-> <<>>, raised |-> FALSE]

\* lines 56-58 without the pop of a completed Action
AccumulatedNoPop(message) ==
    LET r == add_message(acts[message.id], message)
    IN  Outcome("action", [acts EXCEPT ![message.id] = r.action], responses,
                r.completed, NoDispatch)

\* lines 56-58 with the pop done whatever add_message returns
AccumulatedAlwaysPop(message) ==
    LET r == add_message(acts[message.id], message)
    IN  Outcome("action", [acts EXCEPT ![message.id] = r.action],
                responses \ {message.id}, r.completed, NoDispatch)

\* Connection.data_received, lines 56-58: the pending Action takes the Message
Accumulated(message) ==
    LET r == add_message(acts[message.id], message)
    IN  Outcome("action", [acts EXCEPT ![message.id] = r.action],
                IF r.completed THEN responses \ {message.id} ELSE responses,
                r.completed, NoDispatch)

\* Connection.data_received, line 60: the Manager dispatches the event
Dispatched(message) ==
    Outcome("event", acts, responses, FALSE,
            dispatch(patterns, callbacks, message))

Discarded == Outcome("discard", acts, responses, FALSE, NoDispatch)

\* the two tests of lines 55 and 59 the other way round
RouteEventFirst(message) ==
    IF message.event # None THEN Dispatched(message)
    ELSE IF message.id \in responses THEN Accumulated(message)
         ELSE Discarded

\* Connection.data_received, lines 54-60: where one Message goes
Route(message) ==
    IF message.id \in responses THEN Accumulated(message)
    ELSE IF message.event # None THEN Dispatched(message)
         ELSE Discarded

\* the loop of line 44 taking the blocks from the end
NextLineReversed == Last(lines)

\* the next block of the loop of data_received
NextLine == Head(lines)
RestLines == Tail(lines)

\* Connection.data_received, lines 44-60: one turn of the loop.  Nothing in
\* data_received catches the exception of a callback: it ends the loop, and
\* the blocks the loop had not reached are gone with it.
ProcessLine ==
    /\ lines # <<>>
    /\ LET message == from_line(Strip(NextLine))
           r == Route(message)
       IN  IF message.isnone
           THEN /\ lines' = RestLines
                /\ UNCHANGED <<log, actVars, dispVars, authVars, raised>>
           ELSE /\ lines' = (IF r.raised THEN <<>> ELSE RestLines)
                /\ acts' = r.acts
                /\ responses' = r.responses
                /\ matches' = (IF r.out = "event" /\ ~r.raised
                               THEN r.matches ELSE matches)
                /\ calls' = (IF r.out = "event" THEN r.calls ELSE calls)
                /\ raised' = (IF r.out = "event" THEN r.raised ELSE raised)
                /\ doneCallbacks' =
                       (IF r.completed /\ acts[message.id].login
                        THEN Append(doneCallbacks, message.id)
                        ELSE doneCallbacks)
                /\ log' = Append(log, [msg |-> message, out |-> r.out,
                                       pend |-> responses, calls |-> r.calls,
                                       completed |-> r.completed])
                /\ UNCHANGED <<nextId, authenticated, authenticated_future>>
    /\ UNCHANGED <<username, protocol, closed, queue, wire, delivered, written,
                   regVars, loopVars, closeVars, registrars, returned, applied,
                   countVars>>

\* connection_lost without the test of line 63
ReconnectsAlways == TRUE

\* Connection.connection_lost, line 63: if not self.closed
Reconnects == ~closed

\* Connection.connection_lost, called by the loop once for a Connection: when
\* the peer drops the transport, or after the transport was closed.  Past
\* the test of line 63 it runs close(), sleeps two seconds in time.sleep,
\* which holds the thread of the loop so that nothing else runs meanwhile,
\* and calls factory.connect().
ConnectionLost ==
    /\ Idle
    /\ protocol # None
    /\ lost # "called"
    /\ lost' = "called"
    /\ wire' = <<>>
    /\ IF Reconnects
       THEN /\ nconnects < MaxConnects
            /\ closed' = ConnectionClose.closed
            /\ transportCloses' = ConnectionClose.transportCloses
            /\ closeCalls' = ConnectionClose.closeCalls
            /\ tasks' = tasks + 1
            /\ nconnects' = nconnects + 1
       ELSE UNCHANGED <<closed, transportCloses, closeCalls, tasks, nconnects>>
    /\ UNCHANGED <<username, protocol, queue, delivered, lines, log, written,
                   actVars, regVars, dispVars, authVars, pingTimers, retryTimers,
                   cbVars, nblocks, ndispatch, ncloses>>

\* ---------------------------------------------------------- specifications
\* what the peer may write: a response to the first Action, an event that
\* carries its identifier, the end of its list, events, an event with an
\* accented value, and blocks that go nowhere
FirstId == ActionId(1)
Response(st) == <<"I">> \o FirstId \o EOL \o <<"R", st>>
Item == <<"E">> \o Peer \o EOL \o <<"I">> \o FirstId
EndOfList == <<"I">> \o FirstId \o EOL \o <<"L">> \o Complete
Event(name) == <<"E">> \o name
Accented == <<"E">> \o Peer \o EOL \o <<"V", EAcute>>
Unroutable == <<"V">>
EventLines == {Event(PeerStatus), Event(NoPeerStatus)}

SessionBlocks == {Response("S"), Response("F")}
FramingBlocks == {Event(PeerStatus), Accented, Unroutable, <<>>}
RoutingBlocks == {Item, EndOfList, Event(Peer), Unroutable}

\* sizes of a read: any part of what has arrived, or all of it
AnyRead == 1..Len(wire)
WholeRead == {Len(wire)} \ {0}

\* the session: connecting, login, keepalive, requests, loss of the connection
Next ==
    \/ Connect
    \/ \E ok \in BOOLEAN : ConnectionMade(ok)
    \/ RetryConnect
    \/ RunLogin
    \/ \E as_list \in BOOLEAN : Send(as_list)
    \/ Ping
    \/ \E b \in SessionBlocks : ServerSend(b, MaxReplies)
    \/ \E n \in WholeRead : DataReceived(n)
    \/ ProcessLine
    \/ ConnectionLost

Spec == Init /\ [][Next]_vars

\* framing: any stream of blocks, received in chunks of any size
NextFraming ==
    \/ \E b \in FramingBlocks : ServerSend(b, MaxBlocks)
    \/ \E n \in AnyRead : DataReceived(n)
    \/ ProcessLine

SpecFraming == Connected /\ [][NextFraming]_vars

\* routing: requests, subscriptions and the Messages the peer answers with,
\* on a Connection of a Manager without credentials
NextRouting ==
    \/ \E as_list \in BOOLEAN : Send(as_list)
    \/ RegisterEvent(<<"*">>, "A", MaxSubs)
    \/ \E b \in RoutingBlocks : ServerSend(b, MaxRouted)
    \/ \E n \in AnyRead : DataReceived(n)
    \/ ProcessLine

ConnectedNoCredentials == Connected /\ ~username

SpecRouting == ConnectedNoCredentials /\ [][NextRouting]_vars

\* the event registry: register_event and dispatch called by the application
NextEvents ==
    \/ \E p \in Patterns, c \in Callbacks : RegisterEvent(p, c, MaxRegs)
    \/ \E l \in EventLines : Dispatch(l)

SpecEvents == Init /\ [][NextEvents]_vars

\* the life of the Connections of a Manager: connecting, refusals and
\* retries, the keepalive, close() and the loss of the transport
NextLifecycle ==
    \/ Connect
    \/ \E ok \in BOOLEAN : ConnectionMade(ok)
    \/ RetryConnect
    \/ Ping
    \/ Close
    \/ ConnectionLost

SpecLifecycle == Init /\ [][NextLifecycle]_vars

\* the application calls connect() once
FirstConnect == nconnects = 0 /\ Connect

\* the task ends with OSError: the peer refuses the attempts before the last
\* one that a run holds, and accepts connections from then on
Refused == nconnects < MaxConnects /\ ConnectionMade(FALSE)

\* the task ends with a transport and a Connection
Accepted == ConnectionMade(TRUE)

\* connecting to a peer that refuses at first, and the login that follows
NextConnecting ==
    \/ FirstConnect
    \/ Refused
    \/ Accepted
    \/ RetryConnect
    \/ RunLogin
    \/ \E b \in SessionBlocks : ServerSend(b, MaxReplies)
    \/ \E n \in WholeRead : DataReceived(n)
    \/ ProcessLine

\* the loop runs the done callback of a task that ended, and a timer that
\* is due
SpecConnecting ==
    /\ Init
    /\ [][NextConnecting]_vars
    /\ WF_vars(Refused \/ Accepted)
    /\ WF_vars(RetryConnect)

\* callbacks that return and callbacks that raise, registered directly or
\* through a registrar, and dispatch called by the application
CallbackPatterns == {<<"*">>, <<"P", "*">>}
SomeCallbacks == {"A", "X"}

NextCallbacks ==
    \/ \E p \in CallbackPatterns, c \in SomeCallbacks : RegisterEvent(p, c, MaxRegs)
    \/ \E p \in CallbackPatterns : GetRegistrar(p)
    \/ \E p \in CallbackPatterns, c \in SomeCallbacks : ApplyRegistrar(p, c, MaxRegs)
    \/ \E l \in EventLines : Dispatch(l)

SpecCallbacks == Init /\ [][NextCallbacks]_vars

\* an event and the response to a request in the stream of a Connection
\* whose Manager has a callback that raises
RaisingBlocks == {Event(Peer), Response("S")}

NextRaising ==
    \/ Send(FALSE)
    \/ \E c \in SomeCallbacks : RegisterEvent(<<"*">>, c, MaxSubs)
    \/ \E b \in RaisingBlocks : ServerSend(b, MaxRouted)
    \/ \E n \in WholeRead : DataReceived(n)
    \/ ProcessLine

SpecRaising == ConnectedNoCredentials /\ [][NextRaising]_vars

\* ------------------------------------------------------------- properties
\* the non-empty blocks of a list of blocks, decoded, in order
RECURSIVE MessagesOf(_)
MessagesOf(blocks) ==
    IF blocks = <<>> THEN <<>>
    ELSE LET m == from_line(Strip(Head(blocks)))
         IN  (IF m.isnone THEN <<>> ELSE <<m>>) \o MessagesOf(Tail(blocks))

\* the Messages routed so far on this Connection, in the order routed
Routed == [k \in 1..Len(log) |-> log[k].msg]

\* what one call of data_received with all the bytes splits them into
WholeFragments(bytes) == Split(Decode(bytes), Delimiter)

\* C1: the Messages decoded from the chunks received so far (those routed and
\* those of the blocks the loop still holds) are the Messages one call of
\* data_received with all the bytes received so far decodes, in the same
\* order.
ChunkingInvariance ==
    Routed \o MessagesOf(lines) = MessagesOf(Front(WholeFragments(delivered)))

\* C2: when the connection is lost, every Action of the pending table has its
\* future completed (failed with a connection-closed error) in that step.
LostFailsPending ==
    [][ConnectionLost => \A a \in responses : acts'[a].done]_vars

\* the entries of the log whose Message carries the identifier a and was
\* routed after a was sent
After(a) == {k \in 1..Len(log) : log[k].msg.id = a /\ k > acts[a].at}

\* the Messages of a set of entries of the log, in the order of the log
RECURSIVE Pick(_, _)
Pick(K, n) ==
    IF n = 0 THEN <<>>
    ELSE Pick(K, n - 1) \o (IF n \in K THEN <<log[n].msg>> ELSE <<>>)

\* C3: a non-list Action is pending until a Message with its identifier is
\* routed; the first such Message resolves it, once, with that Message, and
\* takes it out of the pending table; no later Message with the identifier
\* reaches it.
SingleResolvedByFirst ==
    \A a \in DOMAIN acts :
        ~acts[a].as_list =>
            IF After(a) = {}
            THEN ~acts[a].done /\ a \in responses
            ELSE /\ acts[a].done
                 /\ acts[a].sets = 1
                 /\ acts[a].result = <<log[Min(After(a))].msg>>
                 /\ a \notin responses
                 /\ \A k \in After(a) :
                        log[k].out = "action" <=> k = Min(After(a))

\* C3 witness: a non-list Action was resolved and a later Message with its
\* identifier was routed
SingleResolvedThenSameId ==
    \E a \in DOMAIN acts :
        ~acts[a].as_list /\ acts[a].done /\ Cardinality(After(a)) > 1

\* the entries of the log that end the list of a
Ends(a) == {k \in After(a) : log[k].msg.eventlist = Complete}

\* the entries of the log up to the end of the list of a
UpToEnd(a) ==
    IF Ends(a) = {} THEN After(a) ELSE {k \in After(a) : k <= Min(Ends(a))}

\* C4: a list Action takes every Message with its identifier, in the order
\* routed, and stays pending until the end-of-list Message; it is resolved by
\* that Message, once, with all the Messages it took.
ListResolvedAtEnd ==
    \A a \in DOMAIN acts :
        acts[a].as_list =>
            /\ acts[a].responses = Pick(UpToEnd(a), Len(log))
            /\ acts[a].done <=> Ends(a) # {}
            /\ ~acts[a].done => a \in responses
            /\ acts[a].done =>
                   /\ a \notin responses
                   /\ acts[a].sets = 1
                   /\ acts[a].result = acts[a].responses
                   /\ Len(acts[a].result) = Cardinality(UpToEnd(a))

\* C4 witness: a list Action resolved with two Messages
ListResolvedWithTwo ==
    \E a \in DOMAIN acts :
        acts[a].as_list /\ acts[a].done /\ Len(acts[a].result) = 2

\* what each pattern of Patterns means: the names it matches as a whole
WholeNameMatch(pattern, name) ==
    CASE pattern = <<"P", "*">> -> name # <<>> /\ Head(name) = "P"
      [] pattern = <<"N", "*">> -> name # <<>> /\ Head(name) = "N"
      [] pattern = <<"?", "S">> -> Len(name) = 2 /\ name[2] = "S"
      [] pattern = <<"*">> -> TRUE

\* the registrations whose pattern matches the name
Matching(name) == {i \in 1..Len(patterns) : WholeNameMatch(patterns[i], name)}

\* the callback of the i-th registration: with the i-th pattern registered n
\* times up to there, the n-th callback of that pattern
Registered(i) ==
    callbacks[patterns[i]]
        [Cardinality({j \in 1..i : patterns[j] = patterns[i]})]

RECURSIVE CallbacksOf(_, _)
CallbacksOf(M, n) ==
    IF n = 0 THEN <<>>
    ELSE CallbacksOf(M, n - 1) \o (IF n \in M THEN <<Registered(n)>> ELSE <<>>)

\* C5: dispatch calls the callback of every matching registration once, and
\* nothing else: k matching registrations give k calls.
OncePerRegistration ==
    [][\A l \in EventLines :
           Dispatch(l) =>
               LET M == Matching(from_line(l).event)
               IN  /\ Len(calls') = Cardinality(M)
                   /\ [k \in 1..Len(calls') |-> calls'[k].cb]
                          = CallbacksOf(M, Len(patterns))]_vars

\* the place of the first x in a sequence
First(seq, x) == Min({i \in 1..Len(seq) : seq[i] = x})
Range(seq) == {seq[i] : i \in 1..Len(seq)}

\* the callbacks called for one pattern, in the order called
CalledFor(cs, pattern) ==
    LET sel == SelectSeq(cs, LAMBDA c : c.pattern = pattern)
    IN  [k \in 1..Len(sel) |-> sel[k].cb]

\* C6: with a registered under a pattern before b, a dispatch of an event the
\* pattern matches calls both for that pattern, a before b, and every call
\* gets the event dispatched and the Manager.
SamePatternInOrder ==
    [][\A l \in EventLines :
           Dispatch(l) =>
               /\ \A c \in Range(calls') :
                      c.event = from_line(l) /\ c.manager = Manager
               /\ \A p \in Range(patterns), a \in Callbacks, b \in Callbacks :
                      (/\ WholeNameMatch(p, from_line(l).event)
                       /\ a \in Range(callbacks[p])
                       /\ b \in Range(callbacks[p])
                       /\ First(callbacks[p], a) < First(callbacks[p], b))
                      => /\ a \in Range(CalledFor(calls', p))
                         /\ b \in Range(CalledFor(calls', p))
                         /\ First(CalledFor(calls', p), a)
                                < First(CalledFor(calls', p), b)]_vars

\* C6 witness: a dispatch called A and B, registered in that order under one
\* pattern
BothCalled ==
    \E p \in Patterns :
        /\ callbacks[p] = <<"A", "B">>
        /\ {"A", "B"} \subseteq Range(CalledFor(calls, p))

\* C7: dispatch returns the patterns of the registrations that match the
\* whole event name, in registration order, one per registration.
ReturnsMatchingPatterns ==
    [][\A l \in EventLines :
           Dispatch(l) =>
               matches' = SelectSeq(patterns,
                              LAMBDA p : WholeNameMatch(p, from_line(l).event))]_vars

\* C7 witness: a dispatch returned the same pattern twice, and the pattern
\* "P*" was registered and left out for the name NoPeerStatus
ReturnedTwice ==
    /\ Len(matches) = 2
    /\ matches[1] = matches[2]
    /\ <<"P", "*">> \in Range(patterns) \ Range(matches)
    /\ calls # <<>>
    /\ \A c \in Range(calls) : c.event.event = NoPeerStatus

\* the Login Actions, and the one sent last
Logins == {a \in DOMAIN acts : acts[a].name = "Login"}
Number(a) == CHOOSE n \in 1..Len(Digits) : ActionId(n) = a
LastLogin == CHOOSE a \in Logins : \A b \in Logins : Number(b) <= Number(a)

\* C8: with credentials, the first Action written on a Connection is the Login
\* sent for it; a scheduled login callback finds a result, whatever the
\* response says; and once the last Login is answered and its callback has
\* run, authenticated tells whether the response was a success and the
\* authentication future is cleared.
LoginSetsAuthenticated ==
    /\ (username /\ protocol # None) =>
           Logins # {} /\ written # <<>> /\ written[1] = LastLogin
    /\ \A a \in Range(doneCallbacks) : acts[a].done /\ Len(acts[a].result) = 1
    /\ (Logins # {} /\ acts[LastLogin].done /\ doneCallbacks = <<>>) =>
           /\ authenticated = (acts[LastLogin].result[1].response = <<"S">>)
           /\ authenticated_future = None

\* C8 witness: a Login was answered with a success and its callback has run
LoggedIn ==
    /\ authenticated
    /\ authenticated_future = None
    /\ doneCallbacks = <<>>

\* C9: a Message whose identifier is pending goes to that Action and to no
\* callback, even with an event field; any other Message with an event field
\* is dispatched and touches no Action; any other Message changes nothing.
RoutedOneWay ==
    [][ProcessLine =>
           LET m == from_line(Strip(Head(lines)))
           IN  ~m.isnone =>
                   /\ Len(log') = Len(log) + 1
                   /\ Last(log').msg = m
                   /\ IF m.id \in responses
                      THEN /\ Last(log').out = "action"
                           /\ acts'[m.id].responses
                                  = Append(acts[m.id].responses, m)
                           /\ Last(log').calls = <<>>
                           /\ UNCHANGED <<matches, calls>>
                      ELSE IF m.event # None
                           THEN /\ Last(log').out = "event"
                                /\ matches' = SelectSeq(patterns,
                                      LAMBDA p : WholeNameMatch(p, m.event))
                                /\ calls' = Last(log').calls
                                /\ matches' # <<>> => calls' # <<>>
                                /\ \A c \in Range(calls') : c.event = m
                                /\ UNCHANGED <<acts, responses>>
                           ELSE /\ Last(log').out = "discard"
                                /\ UNCHANGED <<acts, responses, patterns, callbacks,
                                               matches, calls, doneCallbacks>>]_vars

\* C9 witness: a Message with an event field went to the pending Action that
\* has its identifier, and a Message with neither was discarded
EventToActionAndDiscard ==
    /\ \E k \in 1..Len(log) : log[k].out = "action" /\ log[k].msg.event # None
    /\ \E k \in 1..Len(log) : log[k].out = "discard"

\* C10: the Messages are routed in the order their blocks arrived; the
\* responses of an Action are the Messages routed to it, in that order; the
\* callbacks of an event run when that event is routed; and an Action that
\* an earlier Message completed is out of the pending table when a later
\* Message is routed.
InArrivalOrder ==
    /\ Routed \o MessagesOf(lines)
           = MessagesOf(Front(WholeFragments(delivered)))
    /\ \A a \in DOMAIN acts :
           acts[a].responses
               = Pick({k \in 1..Len(log) :
                           log[k].out = "action" /\ log[k].msg.id = a}, Len(log))
    /\ \A k \in 1..Len(log) :
           /\ \A c \in Range(log[k].calls) : c.event = log[k].msg
           /\ \A j \in 1..(k - 1) :
                  log[j].completed => /\ acts[log[j].msg.id].done
                                      /\ log[j].msg.id \notin log[k].pend

\* C10 witness: an Action was completed by one Message and the callbacks of
\* an event that arrived after it ran
ResolvedThenEvent ==
    \E k \in 1..Len(log), j \in 1..Len(log) :
        /\ j < k
        /\ log[j].completed
        /\ log[k].out = "event"
        /\ log[k].calls # <<>>

\* C11: when the transport of a Connection that was not closed is lost, the
\* Connection is marked closed and the reconnect is left to a timer: the step
\* schedules one and starts no connect attempt itself, so that the loop is
\* free until the timer fires.
LossSchedulesReconnect ==
    [][(ConnectionLost /\ ~closed) =>
           /\ closed'
           /\ retryTimers' = retryTimers + 1
           /\ tasks' = tasks]_vars

\* C12: at most one keepalive timer is pending at any time, whatever the
\* connects, losses and reconnects: no timer of a replaced Connection is left
\* to send a Ping on the new one.
OneKeepalive == pingTimers <= 1

\* C13: the keepalive timer never fires into a send on a closed Connection.
PingOnlyWhenOpen == [][Ping => ~closed]_vars

\* the Manager holds an open Connection
Open == protocol # None /\ ~closed

CloseIsIdempotent ==
    /\ [](transportCloses = (IF closeCalls > 0 THEN 1 ELSE 0))
    /\ [](closeCalls > 0 => closed)
    /\ [][Close =>
             /\ IF protocol = None
                THEN UNCHANGED <<closed, closeVars>>
                ELSE /\ closed'
                     /\ closeCalls' = closeCalls + 1
                     /\ transportCloses' =
                            (IF closed THEN transportCloses ELSE transportCloses + 1)
             /\ UNCHANGED <<username, protocol, queue, wire, delivered, lines,
                            log, written, actVars, regVars, dispVars, authVars,
                            loopVars, cbVars, nblocks, nconnects, ndispatch>>]_vars

\* C15 witness: close ran twice on a Connection whose transport was closed
\* once
ClosedTwice == closed /\ closeCalls = 2 /\ transportCloses = 1 /\ lost = "due"

\* the matching registrations under whose pattern a raising callback is
\* registered
RaisingIn(name) ==
    {i \in Matching(name) : Range(callbacks[patterns[i]]) \cap Raising # {}}

\* C16: when a callback that dispatch comes to raises, dispatch ends with the
\* exception at that call: the raising call is the last call made, it is made
\* for the first matching registration that has a raising callback, no later
\* registration has a callback called, and nothing is returned.  With no
\* raising callback to come to, dispatch ends without an exception.
RaiseEndsDispatch ==
    [][\A l \in EventLines :
           Dispatch(l) =>
               LET R == RaisingIn(from_line(l).event)
               IN  IF R = {}
                   THEN /\ ~raised'
                        /\ \A c \in Range(calls') : c.cb \notin Raising
                   ELSE /\ raised'
                        /\ calls' # <<>>
                        /\ Last(calls').cb \in Raising
                        /\ \A k \in 1..(Len(calls') - 1) :
                               calls'[k].cb \notin Raising
                        /\ Last(calls').pattern = patterns[Min(R)]
                        /\ \A c \in Range(calls') :
                               c.pattern \in {patterns[i] : i \in 1..Min(R)}
                        /\ UNCHANGED matches]_vars

\* C16 witness: dispatch ended with the exception of the first callback of a
\* registration, with a second callback under the same pattern and a later
\* registration under another matching pattern left uncalled
RaisedBeforeOthers ==
    /\ raised
    /\ Len(calls) = 1
    /\ callbacks[calls[1].pattern] = <<"X", "A">>
    /\ \E p \in Range(patterns) :
           /\ p # calls[1].pattern
           /\ WholeNameMatch(p, calls[1].event.event)

\* the registry has one more entry, for the pattern and the callback, at its
\* end, and the callback was returned
AppendedAtEnd(p, c) ==
    /\ returned' = <<c>>
    /\ patterns' = Append(patterns, p)
    /\ callbacks' = [q \in DOMAIN callbacks |->
                        IF q = p THEN Append(callbacks[q], c) ELSE callbacks[q]]

\* C17: register_event(pattern) without a callback leaves the registry as it
\* is and returns a registrar of the pattern; the registrar applied to a
\* callback returns that callback and appends one entry for the pattern and
\* the callback at the end of the registry, as the direct call
\* register_event(pattern, callback) does.
RegistrarRegisters ==
    [][/\ \A p \in CallbackPatterns :
              GetRegistrar(p) =>
                  /\ p \in registrars'
                  /\ UNCHANGED <<patterns, callbacks, returned>>
       /\ \A p \in CallbackPatterns, c \in SomeCallbacks :
              /\ ApplyRegistrar(p, c, MaxRegs) => AppendedAtEnd(p, c)
              /\ RegisterEvent(p, c, MaxRegs) => AppendedAtEnd(p, c)]_vars

\* C17 witness: a registrar was applied to a callback after a direct
\* registration, and its entry is the last of the registry
RegistrarApplied ==
    /\ applied > 0
    /\ Len(patterns) > applied
    /\ returned # <<>>
    /\ Last(patterns) \in registrars
    /\ Last(callbacks[Last(patterns)]) = returned[1]

\* C18: once data_received is through with a chunk, every complete block
\* received so far has been decoded and routed, also the blocks that follow
\* an event whose callback raised; and so a request whose response has been
\* received is resolved.
RoutedDespiteRaise ==
    Idle =>
        /\ Routed = MessagesOf(Front(WholeFragments(delivered)))
        /\ \A a \in DOMAIN acts :
               (\E k \in 1..Len(MessagesOf(Front(WholeFragments(delivered)))) :
                    /\ MessagesOf(Front(WholeFragments(delivered)))[k].id = a
                    /\ k > acts[a].at)
               => acts[a].done

\* C19: authenticated is true only with an open current Connection whose
\* Login was answered with a success.
AuthenticatedOnlyWhenLoggedIn ==
    authenticated =>
        /\ Open
        /\ Logins # {}
        /\ written # <<>>
        /\ written[1] = LastLogin
        /\ acts[LastLogin].done
        /\ acts[LastLogin].result[1].response = <<"S">>

\* connect attempts started or scheduled and not yet ended
Attempts == tasks + retryTimers

\* C20: connection_lost on a Connection that was closed starts no connect
\* attempt and schedules none; on a Connection that was not closed it starts
\* or schedules one and marks the Connection closed, and a Connection stays
\* closed until a new one takes its place, so that no second closure of the
\* same Connection starts another.
ReconnectOnlyIfNotClosed ==
    /\ [][ConnectionLost =>
             /\ closed'
             /\ IF closed
                THEN UNCHANGED <<tasks, retryTimers, nconnects, transportCloses,
                                 closeCalls>>
                ELSE /\ Attempts' = Attempts + 1
                     /\ nconnects' = nconnects + 1]_vars
    /\ [][(closed /\ ~closed') => (tasks' = tasks - 1 /\ lost' = "no")]_vars
    /\ [][lost = "called" => (lost' = "called" \/ tasks' = tasks - 1)]_vars

\* C20 witness: the Manager closed its only Connection, the closure of the
\* transport was notified, and no connect attempt followed
ClosedThenLost ==
    /\ protocol # None
    /\ closed
    /\ lost = "called"
    /\ ncloses > 0
    /\ nconnects = 1
    /\ Attempts = 0

====
